---- MODULE Spec2Model ----
(***************************************************************************)
(* Command execution subsystem of utilities.py (BASIS Python utilities):   *)
(* to_quoted_string, split_quoted_string, to_array_of_strings and          *)
(* execute_process.                                                        *)
(*                                                                         *)
(* Strings are sequences of one-character strings, so that quoting,        *)
(* tokenization, concatenation and "the message embeds X" are computed on  *)
(* characters.  The names `re' and `shlex' used by the source are taken to *)
(* be the Python 2 standard modules of these names.                        *)
(***************************************************************************)
EXTENDS Integers, Sequences, FiniteSets, TLC

VARIABLES
    \* ---- quoting functions (specification SpecQuote) ----
    qpc,        \* position of the quoting round trip: "args", "quoted", "split"
    qargs,      \* the argument list given to to_quoted_string
    qstr,       \* the string returned by to_quoted_string
    qsplit,     \* the result of split_quoted_string on qstr
    \* ---- execute_process (specification Spec) ----
    pc,         \* position of the caller in execute_process
    cmd,        \* the command the caller gave (parameter `args' as passed)
    opt,        \* the keyword arguments of the call
    args,       \* local `args': the list of strings, args[1] replaced by the path
    status,     \* local `status'
    output,     \* local `output'
    err,        \* what communicate() has read of the child's standard error
    ret,        \* the value returned
    error,      \* the SubprocessError raised
    parentOut,  \* everything written to sys.stdout
    parentErr,  \* everything written to sys.stderr
    spawned,    \* number of child processes created
    \* ---- the child process and its pipes ----
    cstate,     \* "none", "running", "exited"
    pending,    \* the system call the child is about to make
    nwrites,    \* number of writes the child has made
    outClosed,  \* the child has closed its standard output
    outPipe,    \* lines written to the stdout pipe and not yet read
    errPipe,    \* chunks written to the stderr pipe and not yet read
    childOut,   \* every line the child wrote to standard output, in order
    childErr,   \* every chunk the child wrote to standard error, in order
    exitcode    \* exit code of the terminated child

qvars == <<qpc, qargs, qstr, qsplit>>
pvars == <<pc, cmd, opt, args, status, output, err, ret, error, parentOut, parentErr, spawned>>
cvars == <<cstate, pending, nwrites, outClosed, outPipe, errPipe, childOut, childErr, exitcode>>
vars == <<qvars, pvars, cvars>>

(***************************************************************************)
(* Bounds                                                                  *)
(***************************************************************************)
MaxArgs == 2        \* longest argument list of the quoting round trip
MaxArgLen == 1      \* longest argument of the quoting round trip

\* Characters of the arguments: two characters that are neither quote nor
\* whitespace nor escape, a blank, both quote characters and the backslash.
Alphabet == {"a", "#", " ", "'", "\"", "\\"}

RECURSIVE StringsUpTo(_)
StringsUpTo(n) ==
    IF n = 0 THEN {<<>>}
    ELSE LET S == StringsUpTo(n - 1)
         IN  S \cup {Append(s, c) : s \in {t \in S : Len(t) = n - 1}, c \in Alphabet}

RECURSIVE ListsUpTo(_, _)
ListsUpTo(E, n) ==
    IF n = 0 THEN {<<>>}
    ELSE LET S == ListsUpTo(E, n - 1)
         IN  S \cup {Append(s, e) : s \in {t \in S : Len(t) = n - 1}, e \in E}

(***************************************************************************)
(* String helpers                                                          *)
(***************************************************************************)
\* s contains t as a contiguous substring
Embeds(s, t) ==
    \E i \in 0..(Len(s) - Len(t)) : SubSeq(s, i + 1, i + Len(t)) = t

\* mutant of JoinSpace: the elements are joined without a separator
RECURSIVE JoinNothing(_)
JoinNothing(l) ==
    IF l = <<>> THEN <<>> ELSE l[1] \o JoinNothing(Tail(l))

\* ' '.join(list)
RECURSIVE JoinSpace(_)
JoinSpace(l) ==
    IF l = <<>> THEN <<>>
    ELSE IF Len(l) = 1 THEN l[1]
    ELSE l[1] \o <<" ">> \o JoinSpace(Tail(l))

\* what the regular expression class \s matches (of the characters TLA+ can write)
ReWhitespace == {" ", "\t", "\n", "\r", "\f"}

\* re.compile(r"'|\s").search(arg)
re_quote_or_not(arg) ==
    \E i \in 1..Len(arg) : arg[i] = "'" \/ arg[i] \in ReWhitespace

\* arg.replace('"', '\\"')
RECURSIVE EscapeDoubleQuotes(_)
EscapeDoubleQuotes(arg) ==
    IF arg = <<>> THEN <<>>
    ELSE (IF Head(arg) = "\"" THEN <<"\\", "\"">> ELSE <<Head(arg)>>)
         \o EscapeDoubleQuotes(Tail(arg))

\* one element of qargs in to_quoted_string
QuoteArg(arg) ==
    LET esc == EscapeDoubleQuotes(arg)
    IN  IF re_quote_or_not(esc) THEN <<"\"">> \o esc \o <<"\"">> ELSE esc

to_quoted_string(arglist) ==
    JoinSpace([i \in 1..Len(arglist) |-> QuoteArg(arglist[i])])

(***************************************************************************)
(* shlex.split(s): the POSIX-mode lexer with whitespace_split set and no   *)
(* comment characters.                                                     *)
(***************************************************************************)
ShlexWhitespace == {" ", "\t", "\r", "\n"}
ShlexQuotes == {"'", "\""}
ShlexEscape == {"\\"}
ShlexEscapedQuotes == {"\""}

\* state: " " between tokens, "a" in a word, a quote character inside
\* quotes, the escape character after a backslash.  The result is
\* [ok |-> TRUE, toks |-> list] or [ok |-> FALSE, toks |-> <<>>] (ValueError).
RECURSIVE read_token(_, _, _, _, _, _, _)
read_token(s, i, state, escapedstate, token, quoted, acc) ==
    IF i > Len(s)
    THEN IF state \in ShlexQuotes \cup ShlexEscape
         THEN [ok |-> FALSE, toks |-> <<>>]
         ELSE [ok |-> TRUE,
               toks |-> IF token # <<>> \/ quoted THEN Append(acc, token) ELSE acc]
    ELSE LET c == s[i] IN
      IF state = " " THEN
           IF c \in ShlexWhitespace
             THEN read_token(s, i + 1, " ", escapedstate, token, quoted, acc)
           ELSE IF c \in ShlexEscape
             THEN read_token(s, i + 1, c, "a", token, quoted, acc)
           ELSE IF c \in ShlexQuotes
             THEN read_token(s, i + 1, c, escapedstate, token, quoted, acc)
           ELSE read_token(s, i + 1, "a", escapedstate, <<c>>, quoted, acc)
      ELSE IF state \in ShlexQuotes THEN
           IF c = state
             THEN read_token(s, i + 1, "a", escapedstate, token, TRUE, acc)
           ELSE IF c \in ShlexEscape /\ state \in ShlexEscapedQuotes
             THEN read_token(s, i + 1, c, state, token, TRUE, acc)
           ELSE read_token(s, i + 1, state, escapedstate, Append(token, c), TRUE, acc)
      ELSE IF state \in ShlexEscape THEN
           LET kept == IF escapedstate \in ShlexQuotes /\ c # state /\ c # escapedstate
                       THEN Append(token, state) ELSE token
           IN  read_token(s, i + 1, escapedstate, escapedstate, Append(kept, c), quoted, acc)
      ELSE \* state = "a"
           IF c \in ShlexWhitespace
             THEN IF token # <<>> \/ quoted
                  THEN read_token(s, i + 1, " ", " ", <<>>, FALSE, Append(acc, token))
                  ELSE read_token(s, i + 1, " ", escapedstate, token, quoted, acc)
           ELSE IF c \in ShlexQuotes
             THEN read_token(s, i + 1, c, escapedstate, token, quoted, acc)
           ELSE IF c \in ShlexEscape
             THEN read_token(s, i + 1, c, "a", token, quoted, acc)
           ELSE read_token(s, i + 1, "a", escapedstate, Append(token, c), quoted, acc)

split_quoted_string(s) == read_token(s, 1, " ", " ", <<>>, FALSE, <<>>)

(***************************************************************************)
(* execute_process: inputs                                                 *)
(***************************************************************************)
MaxWrites == 4      \* most writes a child makes before it exits
PipeCap == 2        \* capacity of a pipe, in writes

\* executable names and arguments of the calls
Ls == <<"l", "s">>
Nx == <<"n", "x">>
ArgAB == <<"a", " ", "b">>

\* The commands given to execute_process: lists of strings and quoted
\* strings that shlex can split, each with at least one element.
Commands ==
    { [type |-> "list", list |-> <<Ls, ArgAB>>, str |-> <<>>],
      [type |-> "list", list |-> <<Ls>>,        str |-> <<>>],
      [type |-> "list", list |-> <<Nx, ArgAB>>, str |-> <<>>],
      [type |-> "str",  list |-> <<>>, str |-> Ls \o <<" ", "'">> \o ArgAB \o <<"'">>] }

Verbosities == {0, 1}

Options ==
    [quiet : BOOLEAN, stdout : BOOLEAN, allow_fail : BOOLEAN,
     verbose : Verbosities, simulate : BOOLEAN]

\* the defaults of the keyword arguments
DefaultOptions ==
    [quiet |-> FALSE, stdout |-> FALSE, allow_fail |-> FALSE,
     verbose |-> 0, simulate |-> FALSE]

\* what a child may write and how it may exit
StdoutLines == {<<"a", "\n">>, <<"b", " ", "\n">>}
StderrChunks == {<<"x">>, <<"y", "\n">>}
ExitCodes == {0, 1, 2}

\* str(e) of the exception raised by subprocess.Popen
OSErrorTexts == {<<"E", "A", "C", "C", "E", "S">>, <<"E", "N", "O", "E", "X", "E", "C">>}
OtherErrorTexts == {<<"T", "y", "p", "e", "E", "r", "r", "o", "r">>}

(***************************************************************************)
(* execute_process: helpers                                                *)
(***************************************************************************)
\* the executables the search path holds, and the directory they are in
OnPath == {Ls}
BinDir == <<"/", "b", "i", "n", "/">>

\* which(name): the absolute path, or WhichError (here <<>>)
which(name) == IF name \in OnPath THEN BinDir \o name ELSE <<>>

\* mutant of get_executable_path: a name not found is returned as it is
get_executable_path_or_name(name) ==
    IF which(name) = <<>> THEN name ELSE which(name)

\* get_executable_path(name) for a name that is not None: None (here the
\* empty string, which `not path' treats alike) when which() raises
get_executable_path(name) == which(name)

\* to_array_of_strings: a list is converted element by element with str(),
\* a string is split; ok is FALSE when an exception is raised instead
to_array_of_strings(c) ==
    IF c.type = "list" THEN [ok |-> TRUE, toks |-> c.list]
    ELSE IF c.type = "str" THEN split_quoted_string(c.str)
    ELSE [ok |-> FALSE, toks |-> <<>>]

\* args[0] + ": Command not found"
NotFoundMessage(a) ==
    a[1] \o <<":", " ", "C", "o", "m", "m", "a", "n", "d", " ",
              "n", "o", "t", " ", "f", "o", "u", "n", "d">>

\* what the verbose branch writes to sys.stdout
VerboseEcho(a, o) ==
    IF o.verbose > 0
    THEN <<"$", " ">> \o to_quoted_string(a)
         \o (IF o.simulate
             THEN <<" ", "(", "s", "i", "m", "u", "l", "a", "t", "e", "d", ")">>
             ELSE <<>>)
         \o <<"\n">>
    ELSE <<>>

\* mutant of ShouldExecute: simulate is ignored
ShouldExecuteAlways(o) == TRUE

\* the command is executed
ShouldExecute(o) == ~o.simulate

\* args[0] + ': ' + str(e)
OSErrorMessage(a, e) == a[1] \o <<":", " ">> \o e

\* "Exception while executing \"" + args[0] + "\"!\n" + "\tArguments: " +
\* to_quoted_string(args[1:]) + '\n' + '\t' + str(e)
ExceptionMessage(a, e) ==
    <<"E", "x", "c", "e", "p", "t", "i", "o", "n", " ", "w", "h", "i", "l", "e", " ",
      "e", "x", "e", "c", "u", "t", "i", "n", "g", " ", "\"">>
    \o a[1] \o <<"\"", "!", "\n">>
    \o <<"\t", "A", "r", "g", "u", "m", "e", "n", "t", "s", ":", " ">>
    \o to_quoted_string(Tail(a)) \o <<"\n">>
    \o <<"\t">> \o e

\* mutant of FailedMessage: only the executable is named
FailedMessageExecutableOnly(a) ==
    <<"*", "*", " ", "F", "a", "i", "l", "e", "d", ":", " ">> \o a[1]

\* "** Failed: " + to_quoted_string(args)
FailedMessage(a) ==
    <<"*", "*", " ", "F", "a", "i", "l", "e", "d", ":", " ">> \o to_quoted_string(a)

\* line.rstrip()
RECURSIVE rstrip(_)
rstrip(line) ==
    IF line # <<>> /\ line[Len(line)] \in ReWhitespace
    THEN rstrip(SubSeq(line, 1, Len(line) - 1))
    ELSE line

\* mutant of Capture: the line is captured only when it is echoed as well
CaptureWhenEchoed(out, line, o) == IF o.stdout /\ ~o.quiet THEN out \o line ELSE out

\* if stdout: output = output + line
Capture(out, line, o) == IF o.stdout THEN out \o line ELSE out

\* if not quiet: print line.rstrip()
EchoLine(pout, line, o) == IF ~o.quiet THEN pout \o rstrip(line) \o <<"\n">> ELSE pout

\* mutant of ForwardErr: the error output is stripped like the echoed lines
ForwardErrStripped(perr, e) == perr \o rstrip(e)

\* for line in err: sys.stderr.write(line)
ForwardErr(perr, e) == perr \o e

\* mutant of Failed: allow_fail is ignored
FailedWhateverAllowed(st, o) == st # 0

\* status != 0 and not allow_fail
Failed(st, o) == st # 0 /\ ~o.allow_fail

\* mutant of ReturnValue: the output alone whenever stdout is set
ReturnValueOutputFirst(st, out, o) ==
    IF o.stdout THEN [shape |-> "output", out |-> out]
    ELSE [shape |-> "code", code |-> st]

\* the return statements
ReturnValue(st, out, o) ==
    IF o.stdout /\ o.allow_fail THEN [shape |-> "pair", code |-> st, out |-> out]
    ELSE IF o.stdout THEN [shape |-> "output", out |-> out]
    ELSE [shape |-> "code", code |-> st]

NoReturn == [shape |-> "none"]
NoError == [variant |-> "none", msg |-> <<>>, reason |-> <<>>]
NoCommand == [type |-> "list", list |-> <<>>, str |-> <<>>]
NoOp == [kind |-> "none", data |-> <<>>, code |-> 0]

\* the system calls a running child can make next
ChildOps(n, closed) ==
    {[kind |-> "exit", data |-> <<>>, code |-> c] : c \in ExitCodes}
    \cup (IF n < MaxWrites
          THEN {[kind |-> "err", data |-> d, code |-> 0] : d \in StderrChunks}
          ELSE {})
    \cup (IF n < MaxWrites /\ ~closed
          THEN {[kind |-> "out", data |-> d, code |-> 0] : d \in StdoutLines}
          ELSE {})
    \cup (IF ~closed THEN {[kind |-> "closeOut", data |-> <<>>, code |-> 0]} ELSE {})

\* concatenation of a list of strings
RECURSIVE Concat(_)
Concat(l) == IF l = <<>> THEN <<>> ELSE Head(l) \o Concat(Tail(l))

\* mutant of CommunicateReturns: the child's standard output is at
\* end-of-file, nothing else is waited for
CommunicateReturnsAtStdoutEOF == outPipe = <<>>

\* communicate() returns: both pipes are at end-of-file and wait() has
\* collected the terminated child
CommunicateReturns == outPipe = <<>> /\ errPipe = <<>> /\ cstate = "exited"

(***************************************************************************)
(* execute_process: the state machine                                      *)
(***************************************************************************)
QuoteIdle ==
    /\ qpc = "args"
    /\ qargs = <<>>
    /\ qstr = <<>>
    /\ qsplit = [ok |-> TRUE, toks |-> <<>>]

ProcessIdle ==
    /\ pc = "idle"
    /\ cmd = NoCommand
    /\ opt = DefaultOptions
    /\ args = <<>>
    /\ status = 0
    /\ output = <<>>
    /\ err = <<>>
    /\ ret = NoReturn
    /\ error = NoError
    /\ parentOut = <<>>
    /\ parentErr = <<>>
    /\ spawned = 0
    /\ cstate = "none"
    /\ pending = NoOp
    /\ nwrites = 0
    /\ outClosed = FALSE
    /\ outPipe = <<>>
    /\ errPipe = <<>>
    /\ childOut = <<>>
    /\ childErr = <<>>
    /\ exitcode = 0

Init == QuoteIdle /\ ProcessIdle

\* the end of execute_process: raise when the command failed, else return
Finish(st, out, a, o) ==
    IF Failed(st, o)
    THEN /\ pc' = "raised"
         /\ error' = [variant |-> "NonZeroExit", msg |-> FailedMessage(a), reason |-> <<>>]
         /\ ret' = ret
    ELSE /\ pc' = "returned"
         /\ ret' = ReturnValue(st, out, o)
         /\ error' = error

\* execute_process(c, **o) up to the point where the child is created
Call(c, o) ==
    /\ pc = "idle"
    /\ cmd' = c
    /\ opt' = o
    /\ LET conv == to_array_of_strings(c)
           a == conv.toks
           path == get_executable_path(a[1])
           resolved == [a EXCEPT ![1] = path]
       IN  IF ~conv.ok
           THEN /\ pc' = "raised"
                /\ error' = [variant |-> "Exception", msg |-> <<>>, reason |-> <<>>]
                /\ UNCHANGED <<args, parentOut, ret>>
           ELSE IF path = <<>>
           THEN /\ pc' = "raised"
                /\ args' = a
                /\ error' = [variant |-> "NotFound", msg |-> NotFoundMessage(a),
                            reason |-> <<>>]
                /\ UNCHANGED <<parentOut, ret>>
           ELSE /\ args' = resolved
                /\ parentOut' = parentOut \o VerboseEcho(resolved, o)
                /\ IF ShouldExecute(o)
                   THEN pc' = "popen" /\ UNCHANGED <<ret, error>>
                   ELSE Finish(0, <<>>, resolved, o)
    /\ status' = 0
    /\ output' = <<>>
    /\ UNCHANGED <<err, parentErr, spawned>>
    /\ UNCHANGED cvars
    /\ UNCHANGED qvars

\* subprocess.Popen creates the child
PopenOK ==
    /\ pc = "popen"
    /\ pc' = "read"
    /\ spawned' = spawned + 1
    /\ cstate' = "running"
    /\ pending' \in ChildOps(0, FALSE)
    /\ UNCHANGED <<cmd, opt, args, status, output, err, ret, error, parentOut, parentErr>>
    /\ UNCHANGED <<nwrites, outClosed, outPipe, errPipe, childOut, childErr, exitcode>>
    /\ UNCHANGED qvars

\* subprocess.Popen raises OSError: no child exists
PopenOSError ==
    /\ pc = "popen"
    /\ \E e \in OSErrorTexts :
          error' = [variant |-> "SpawnFailure", msg |-> OSErrorMessage(args, e),
                    reason |-> e]
    /\ pc' = "raised"
    /\ UNCHANGED <<cmd, opt, args, status, output, err, ret, parentOut, parentErr, spawned>>
    /\ UNCHANGED cvars
    /\ UNCHANGED qvars

\* subprocess.Popen raises another exception: no child exists
PopenException ==
    /\ pc = "popen"
    /\ \E e \in OtherErrorTexts :
          error' = [variant |-> "SpawnFailure", msg |-> ExceptionMessage(args, e),
                    reason |-> e]
    /\ pc' = "raised"
    /\ UNCHANGED <<cmd, opt, args, status, output, err, ret, parentOut, parentErr, spawned>>
    /\ UNCHANGED cvars
    /\ UNCHANGED qvars

\* one iteration of `for line in process.stdout'
ReadLine ==
    /\ pc = "read"
    /\ outPipe # <<>>
    /\ LET line == Head(outPipe)
       IN  /\ output' = Capture(output, line, opt)
           /\ parentOut' = EchoLine(parentOut, line, opt)
    /\ outPipe' = Tail(outPipe)
    /\ UNCHANGED <<pc, cmd, opt, args, status, err, ret, error, parentErr, spawned>>
    /\ UNCHANGED <<cstate, pending, nwrites, outClosed, errPipe, childOut, childErr, exitcode>>
    /\ UNCHANGED qvars

\* the loop ends at end-of-file of the child's standard output
ReadEOF ==
    /\ pc = "read"
    /\ outPipe = <<>>
    /\ outClosed
    /\ pc' = "communicate"
    /\ UNCHANGED <<cmd, opt, args, status, output, err, ret, error, parentOut, parentErr, spawned>>
    /\ UNCHANGED cvars
    /\ UNCHANGED qvars

\* process.communicate() reads from the stderr pipe
CommunicateRead ==
    /\ pc = "communicate"
    /\ errPipe # <<>>
    /\ err' = err \o Head(errPipe)
    /\ errPipe' = Tail(errPipe)
    /\ UNCHANGED <<pc, cmd, opt, args, status, output, ret, error, parentOut, parentErr, spawned>>
    /\ UNCHANGED <<cstate, pending, nwrites, outClosed, outPipe, childOut, childErr, exitcode>>
    /\ UNCHANGED qvars

\* process.communicate() returns; the error output is forwarded, the exit
\* code taken and execute_process returns or raises
CommunicateDone ==
    /\ pc = "communicate"
    /\ CommunicateReturns
    /\ parentErr' = ForwardErr(parentErr, err)
    /\ status' = exitcode
    /\ Finish(exitcode, output, args, opt)
    /\ UNCHANGED <<cmd, opt, args, output, err, parentOut, spawned>>
    /\ UNCHANGED cvars
    /\ UNCHANGED qvars

\* the child writes a line to its standard output (blocks while the pipe is full)
ChildWriteOut ==
    /\ cstate = "running"
    /\ pending.kind = "out"
    /\ Len(outPipe) < PipeCap
    /\ outPipe' = Append(outPipe, pending.data)
    /\ childOut' = Append(childOut, pending.data)
    /\ nwrites' = nwrites + 1
    /\ pending' \in ChildOps(nwrites + 1, outClosed)
    /\ UNCHANGED <<cstate, outClosed, errPipe, childErr, exitcode>>
    /\ UNCHANGED pvars
    /\ UNCHANGED qvars

\* the child writes to its standard error (blocks while the pipe is full)
ChildWriteErr ==
    /\ cstate = "running"
    /\ pending.kind = "err"
    /\ Len(errPipe) < PipeCap
    /\ errPipe' = Append(errPipe, pending.data)
    /\ childErr' = Append(childErr, pending.data)
    /\ nwrites' = nwrites + 1
    /\ pending' \in ChildOps(nwrites + 1, outClosed)
    /\ UNCHANGED <<cstate, outClosed, outPipe, childOut, exitcode>>
    /\ UNCHANGED pvars
    /\ UNCHANGED qvars

\* the child closes its standard output and goes on
ChildCloseOut ==
    /\ cstate = "running"
    /\ pending.kind = "closeOut"
    /\ outClosed' = TRUE
    /\ pending' \in ChildOps(nwrites, TRUE)
    /\ UNCHANGED <<cstate, nwrites, outPipe, errPipe, childOut, childErr, exitcode>>
    /\ UNCHANGED pvars
    /\ UNCHANGED qvars

\* the child exits, which closes both of its streams
ChildExit ==
    /\ cstate = "running"
    /\ pending.kind = "exit"
    /\ cstate' = "exited"
    /\ exitcode' = pending.code
    /\ outClosed' = TRUE
    /\ pending' = NoOp
    /\ UNCHANGED <<nwrites, outPipe, errPipe, childOut, childErr>>
    /\ UNCHANGED pvars
    /\ UNCHANGED qvars

Next ==
    \/ \E c \in Commands, o \in Options : Call(c, o)
    \/ PopenOK
    \/ PopenOSError
    \/ PopenException
    \/ ReadLine
    \/ ReadEOF
    \/ CommunicateRead
    \/ CommunicateDone
    \/ ChildWriteOut
    \/ ChildWriteErr
    \/ ChildCloseOut
    \/ ChildExit

Spec == Init /\ [][Next]_vars

(***************************************************************************)
(* The quoting round trip as a state machine                               *)
(***************************************************************************)
NoString == <<"?", "?", "?">>      \* placeholder before a string is computed
NoSplit == [ok |-> FALSE, toks |-> << <<"?">> >>]

InitQuote ==
    /\ ProcessIdle
    /\ qpc = "args"
    /\ qargs \in ListsUpTo(StringsUpTo(MaxArgLen), MaxArgs)
    /\ qstr = NoString
    /\ qsplit = NoSplit

Quote ==
    /\ qpc = "args"
    /\ qstr' = to_quoted_string(qargs)
    /\ qpc' = "quoted"
    /\ UNCHANGED <<qargs, qsplit>>
    /\ UNCHANGED <<pvars, cvars>>

Split ==
    /\ qpc = "quoted"
    /\ qsplit' = split_quoted_string(qstr)
    /\ qpc' = "split"
    /\ UNCHANGED <<qargs, qstr>>
    /\ UNCHANGED <<pvars, cvars>>

NextQuote == Quote \/ Split

SpecQuote == InitQuote /\ [][NextQuote]_vars

(***************************************************************************)
(* Properties of the quoting functions (checked under SpecQuote)           *)
(***************************************************************************)
\* an argument without quote and whitespace characters
PlainArg(arg) ==
    \A i \in 1..Len(arg) : arg[i] \notin {"'", "\""} \cup ReWhitespace \cup ShlexWhitespace

\* an argument that in addition is not empty and holds no backslash
SimpleArg(arg) ==
    /\ arg # <<>>
    /\ PlainArg(arg)
    /\ \A i \in 1..Len(arg) : arg[i] \notin ShlexEscape

\* C8 as stated: round-trip law: for every argument list whose elements hold
\* no single-quote, no double-quote and no whitespace character,
\* split_quoted_string(to_quoted_string(A)) = A.
C8_RoundTrip ==
    (qpc = "split" /\ \A i \in 1..Len(qargs) : PlainArg(qargs[i]))
        => (qsplit.ok /\ qsplit.toks = qargs)

\* C8 as amended: the round trip returns A when, in addition, no element of A
\* is empty and no element holds a backslash.
C8_RoundTripSimple ==
    (qpc = "split" /\ \A i \in 1..Len(qargs) : SimpleArg(qargs[i]))
        => (qsplit.ok /\ qsplit.toks = qargs)

\* a list of two simple arguments has made the round trip
C8_Witness ==
    /\ qpc = "split"
    /\ Len(qargs) = 2
    /\ \A i \in 1..Len(qargs) : SimpleArg(qargs[i])
    /\ qargs[1] # qargs[2]

(***************************************************************************)
(* Properties of execute_process (checked under Spec)                      *)
(***************************************************************************)
Called == pc # "idle"
Finished == pc \in {"returned", "raised"}

\* args[0] of the call after to_array_of_strings
FirstArg == to_array_of_strings(cmd).toks[1]

\* the PathResolver cannot resolve the first argument of the call
Unresolvable == which(FirstArg) = <<>>

\* what `print line.rstrip()' has written for a list of lines
RECURSIVE Echoed(_)
Echoed(lines) ==
    IF lines = <<>> THEN <<>>
    ELSE rstrip(Head(lines)) \o <<"\n">> \o Echoed(Tail(lines))

\* the exit code a returned value carries, if it carries one
CarriesCode(c) == ret.shape \in {"pair", "code"} /\ ret.code = c

\* C1: a call whose first argument the PathResolver cannot resolve raises
\* NotFound with the unresolved name in the message, whatever the options;
\* no child is spawned and nothing is written to the parent's standard
\* output or standard error (no verbose echo either).
C1_NotFound ==
    (Called /\ Unresolvable)
        => /\ pc = "raised"
           /\ error.variant = "NotFound"
           /\ Embeds(error.msg, FirstArg)
           /\ spawned = 0
           /\ cstate = "none"
           /\ parentOut = <<>>
           /\ parentErr = <<>>

\* an unresolvable command was called with verbose > 0
C1_Witness ==
    /\ Called
    /\ Unresolvable
    /\ opt.verbose > 0
    /\ pc = "raised"

\* C2: with simulate set no child is ever spawned, the call ends at once,
\* either raising NotFound (exactly when the name does not resolve) or
\* returning with exit code 0 and empty output.
C2_Simulate ==
    (Called /\ opt.simulate)
        => /\ spawned = 0
           /\ cstate = "none"
           /\ Finished
           /\ (pc = "raised") = Unresolvable
           /\ pc = "raised" => error.variant = "NotFound"
           /\ pc = "returned" =>
                 /\ status = 0
                 /\ output = <<>>
                 /\ ret.shape \in {"pair", "code"} => ret.code = 0
                 /\ ret.shape \in {"pair", "output"} => ret.out = <<>>

\* a simulated call that asked for the output has returned
C2_Witness ==
    /\ opt.simulate
    /\ opt.stdout
    /\ opt.verbose > 0
    /\ pc = "returned"

\* C3: after a child ran to termination with exit code c, NonZeroExit is
\* raised if and only if c # 0 and allow_fail is not set; with c # 0 and
\* allow_fail set the call returns and the returned exit code is c.
C3_NonZeroExit ==
    (Finished /\ spawned > 0 /\ cstate = "exited")
        => /\ (pc = "raised" /\ error.variant = "NonZeroExit")
                 = (exitcode # 0 /\ ~opt.allow_fail)
           /\ (pc = "raised") = (exitcode # 0 /\ ~opt.allow_fail)
           /\ (exitcode # 0 /\ opt.allow_fail) =>
                 (pc = "returned" /\ CarriesCode(exitcode))

\* a child exited with code 2 and the call returned it
C3_Witness ==
    /\ pc = "returned"
    /\ spawned > 0
    /\ exitcode = 2
    /\ opt.allow_fail
    /\ ~opt.stdout
    /\ ret.code = 2

C5_CaptureQuiet ==
    (pc = "returned" /\ spawned > 0 /\ opt.stdout /\ opt.quiet /\ exitcode = 0)
        => /\ status = 0
           /\ ret.shape = "pair" => ret.code = 0
           /\ ret.out = Concat(childOut)
           /\ parentOut = <<>>

\* C5 as amended: as above, but the parent's standard output holds the
\* verbose echo of the command line when verbose > 0 (and is empty when
\* verbose = 0); nothing of the child's output is written to it.
C5_CaptureQuietEcho ==
    (pc = "returned" /\ spawned > 0 /\ opt.stdout /\ opt.quiet /\ exitcode = 0)
        => /\ status = 0
           /\ ret.shape = "pair" => ret.code = 0
           /\ ret.out = Concat(childOut)
           /\ opt.verbose = 0 => parentOut = <<>>
           /\ opt.verbose > 0 =>
                 parentOut = <<"$", " ">> \o to_quoted_string(args) \o <<"\n">>

\* a quiet capturing call returned two different lines and the child also
\* wrote to standard error
C5_Witness ==
    /\ pc = "returned"
    /\ opt.stdout
    /\ opt.quiet
    /\ exitcode = 0
    /\ Len(childOut) = 2
    /\ childOut[1] # childOut[2]
    /\ childErr # <<>>

\* C6: when the call is over for a child that ran to termination, the
\* parent's standard error holds exactly what the child wrote to its standard
\* error, in order, whatever quiet, stdout and allow_fail are; the captured
\* output and the parent's standard output are made of the child's standard
\* output (and the verbose echo) only.
C6_StderrForwarded ==
    (Finished /\ spawned > 0 /\ cstate = "exited")
        => /\ parentErr = Concat(childErr)
           /\ output = (IF opt.stdout THEN Concat(childOut) ELSE <<>>)
           /\ parentOut = (IF opt.verbose > 0
                           THEN <<"$", " ">> \o to_quoted_string(args) \o <<"\n">>
                           ELSE <<>>)
                          \o (IF opt.quiet THEN <<>> ELSE Echoed(childOut))

\* NonZeroExit was raised by a quiet capturing call whose child wrote two
\* different chunks to standard error
C6_Witness ==
    /\ pc = "raised"
    /\ error.variant = "NonZeroExit"
    /\ opt.quiet
    /\ opt.stdout
    /\ Len(childErr) = 2
    /\ childErr[1] # childErr[2]

\* C7 as stated: every error raised carries a message that embeds the quoted
\* rendering of the full command line; a SpawnFailure message also embeds the
\* reason the operating system reported.
C7_MessageEmbedsCommandLine ==
    pc = "raised"
        => /\ Embeds(error.msg, to_quoted_string(args))
           /\ error.variant = "SpawnFailure" => Embeds(error.msg, error.reason)

\* C7 as amended: a NonZeroExit message embeds the quoted rendering of the
\* full command line (its first element being the resolved path); a NotFound
\* message embeds the unresolved name; a SpawnFailure message embeds the
\* resolved path of the executable and the reported reason.
C7_MessageEmbeds ==
    pc = "raised"
        => /\ error.variant \in {"NotFound", "SpawnFailure", "NonZeroExit"}
           /\ error.variant = "NonZeroExit" =>
                 /\ Embeds(error.msg, to_quoted_string(args))
                 /\ args = <<which(FirstArg)>> \o Tail(to_array_of_strings(cmd).toks)
           /\ error.variant = "NotFound" => Embeds(error.msg, FirstArg)
           /\ error.variant = "SpawnFailure" =>
                 /\ Embeds(error.msg, which(FirstArg))
                 /\ Embeds(error.msg, error.reason)

\* NonZeroExit was raised for a command line with an argument that needs quotes
C7_Witness ==
    /\ pc = "raised"
    /\ error.variant = "NonZeroExit"
    /\ Len(args) = 2
    /\ to_quoted_string(args) # JoinSpace(args)

\* C9: the shape of the value returned is selected by stdout and allow_fail:
\* both give the pair (exit code, output), stdout alone the output, allow_fail
\* alone the exit code, neither the exit code, which then is 0.
C9_ReturnShape ==
    pc = "returned"
        => /\ status = (IF spawned > 0 THEN exitcode ELSE 0)
           /\ (opt.stdout /\ opt.allow_fail) =>
                 ret = [shape |-> "pair", code |-> status, out |-> output]
           /\ (opt.stdout /\ ~opt.allow_fail) =>
                 ret = [shape |-> "output", out |-> output]
           /\ (~opt.stdout /\ opt.allow_fail) =>
                 ret = [shape |-> "code", code |-> status]
           /\ (~opt.stdout /\ ~opt.allow_fail) =>
                 ret = [shape |-> "code", code |-> 0]

\* each of the return shapes: a call that ran a child has returned
C9_Witness ==
    /\ pc = "returned"
    /\ spawned > 0
    /\ ~opt.stdout
    /\ ~opt.allow_fail
    /\ childOut # <<>>

\* the caller is blocked reading the stdout pipe (empty, not at end-of-file)
ExecutorBlockedOnStdout ==
    pc = "read" /\ outPipe = <<>> /\ ~outClosed

\* the child is blocked writing to the full stderr pipe
ChildBlockedOnStderr ==
    cstate = "running" /\ pending.kind = "err" /\ Len(errPipe) >= PipeCap

\* C10: deadlock freedom of the drain: no state is reachable in which the
\* executor is blocked reading one pipe while the child is blocked writing to
\* the other, full pipe.
C10_NoPipeDeadlock ==
    ~(ExecutorBlockedOnStdout /\ ChildBlockedOnStderr)

====
